---- MODULE Spec2Model ----
(***************************************************************************)
(* Host-based HTTP reverse proxy (BunReverseProxy).                        *)
(*                                                                         *)
(* Strings the code inspects character by character (host headers, paths)  *)
(* are sequences of one-character strings; strings the code only copies    *)
(* or compares as a whole (origins, query strings, header names) are TLA+  *)
(* strings.                                                                *)
(*                                                                         *)
(*   Spec        the request pipeline of the axios-based server            *)
(*   SpecRouter  the Map-based routing table with setRoutes / addRoute     *)
(*   SpecPath    the pure path functions, applied to bounded inputs        *)
(***************************************************************************)
EXTENDS Integers, Sequences, FiniteSets, TLC

VARIABLES
    options,        \* this.options of the axios-based server: debug, rewriteContent
    routes,         \* this.routes of the axios-based server: Record<string, string>
    requestSeq,     \* this.requestSeq
    pc,             \* position of the request being handled
    req,            \* the inbound request
    matched,        \* [hostname, target] chosen by the lookup
    upstreamReq,    \* the call handed to axios: [url, headers]
    upstreamCalls,  \* number of axios calls issued for the request
    upstreamRes,    \* what the axios call came back with
    resp,           \* the response returned to the client
    mapHeap,        \* Map objects of the Map-based server, by object identity
    routesRef,      \* this.routes of the Map-based server: identity of a Map
    lastOp,         \* last Router operation, with what it read or installed
    pIn,            \* SpecPath: pathname argument
    bIn,            \* SpecPath: basePath argument / target pathname
    qIn,            \* SpecPath: inbound query string and fragment
    out,            \* SpecPath: result of the applied function
    rIn,            \* SpecRewriter: the response handed to the ContentRewriter
    rOut            \* SpecRewriter: what the ContentRewriter returned and delivered

vars == <<options, routes, requestSeq, pc, req, matched, upstreamReq, upstreamCalls, upstreamRes, resp,
          mapHeap, routesRef, lastOp, pIn, bIn, qIn, out, rIn, rOut>>

pipelineVars == <<options, routes, requestSeq, pc, req, matched, upstreamReq, upstreamCalls,
                  upstreamRes, resp>>
routerVars == <<mapHeap, routesRef, lastOp>>
pathVars == <<pIn, bIn, qIn, out>>
rewriterVars == <<rIn, rOut>>

---------------------------------------------------------------------------
(* Bounds *)

MaxPathLen == 5
MaxHostLen == 3
MaxRequests == 2
MaxMaps == 3
MaxHeaders == 2
MaxCookies == 2
MaxBodyLen == 3
MaxChunks == 2
MaxElements == 2

---------------------------------------------------------------------------
(* String primitives of the runtime, on sequences of characters *)

RECURSIVE StrsUpTo(_, _)
StrsUpTo(chars, n) ==
    IF n = 0 THEN {<<>>}
    ELSE LET shorter == StrsUpTo(chars, n - 1)
         IN shorter \cup {Append(s, c) : s \in {t \in shorter : Len(t) = n - 1}, c \in chars}

StartsWith(s, prefix) ==
    /\ Len(prefix) <= Len(s)
    /\ SubSeq(s, 1, Len(prefix)) = prefix

Slice(s, from) == SubSeq(s, from + 1, Len(s))

Includes(s, c) == \E i \in 1..Len(s) : s[i] = c

IndexOf(s, c) ==
    IF Includes(s, c) THEN (CHOOSE i \in 1..Len(s) : s[i] = c /\ \A j \in 1..(i - 1) : s[j] # c) - 1
    ELSE -1

RECURSIVE Split(_, _)
Split(s, sep) ==
    LET i == IndexOf(s, sep)
    IN IF i = -1 THEN <<s>>
       ELSE <<SubSeq(s, 1, i)>> \o Split(Slice(s, i + 1), sep)

FilterBoolean(parts) == SelectSeq(parts, LAMBDA x : x # <<>>)

RECURSIVE Join(_, _)
Join(parts, sep) ==
    IF parts = <<>> THEN <<>>
    ELSE IF Len(parts) = 1 THEN parts[1]
    ELSE parts[1] \o <<sep>> \o Join(Tail(parts), sep)

RECURSIVE TrimStart(_)
TrimStart(s) == IF s # <<>> /\ Head(s) = " " THEN TrimStart(Tail(s)) ELSE s

RECURSIVE TrimEnd(_)
TrimEnd(s) == IF s # <<>> /\ s[Len(s)] = " " THEN TrimEnd(SubSeq(s, 1, Len(s) - 1)) ELSE s

Trim(s) == TrimEnd(TrimStart(s))

---------------------------------------------------------------------------
(* Path functions *)

formatPathname(pathname) == <<"/">> \o Join(FilterBoolean(Split(pathname, "/")), "/")

stripBasePath_PrefixOnly(pathname, basePath) ==
    IF basePath = <<>> THEN (IF pathname = <<>> THEN <<"/">> ELSE pathname)
    ELSE IF StartsWith(pathname, basePath)
         THEN (IF Slice(pathname, Len(basePath)) = <<>> THEN <<"/">>
               ELSE Slice(pathname, Len(basePath)))
    ELSE (IF pathname = <<>> THEN <<"/">> ELSE pathname)

stripBasePath(pathname, basePath) ==
    IF basePath = <<>> THEN (IF pathname = <<>> THEN <<"/">> ELSE pathname)
    ELSE IF pathname = basePath THEN <<"/">>
    ELSE IF StartsWith(pathname, basePath \o <<"/">>)
         THEN (IF Slice(pathname, Len(basePath)) = <<>> THEN <<"/">>
               ELSE Slice(pathname, Len(basePath)))
    ELSE (IF pathname = <<>> THEN <<"/">> ELSE pathname)

\* upstreamUrl.pathname === "/" ? "" : upstreamUrl.pathname.replace(/\/$/, "")
basePathOf(targetPathname) ==
    IF targetPathname = <<"/">> THEN <<>>
    ELSE IF targetPathname # <<>> /\ targetPathname[Len(targetPathname)] = "/"
         THEN SubSeq(targetPathname, 1, Len(targetPathname) - 1)
    ELSE targetPathname

buildUpstreamUrl_NoBasePath(incomingUrl, target) ==
    [origin |-> target.origin,
     pathname |-> formatPathname(incomingUrl.pathname),
     search |-> incomingUrl.search,
     hash |-> incomingUrl.hash]

buildUpstreamUrl(incomingUrl, target) ==
    [origin |-> target.origin,
     pathname |-> formatPathname(basePathOf(target.pathname) \o incomingUrl.pathname),
     search |-> incomingUrl.search,
     hash |-> incomingUrl.hash]

---------------------------------------------------------------------------
(* Header bags: functions from lower-case header names to values.  A value *)
(* is the sequence of the comma-separated tokens of the header's text.     *)

EmptyHeaders == <<>>

Has(h, name) == name \in DOMAIN h

Put(h, name, value) ==
    [n \in DOMAIN h \cup {name} |-> IF n = name THEN value ELSE h[n]]

DelAll(h, names) == [n \in DOMAIN h \ names |-> h[n]]

\* String.prototype.toLowerCase on the header names and tokens of the model
toLowerCaseName(name) ==
    CASE name = "Connection" -> "connection"
      [] name = "CONNECTION" -> "connection"
      [] name = "Keep-Alive" -> "keep-alive"
      [] name = "Proxy-Authenticate" -> "proxy-authenticate"
      [] name = "Proxy-Authorization" -> "proxy-authorization"
      [] name = "TE" -> "te"
      [] name = "Trailers" -> "trailers"
      [] name = "Transfer-Encoding" -> "transfer-encoding"
      [] name = "Upgrade" -> "upgrade"
      [] name = "UPGRADE" -> "upgrade"
      [] name = "Content-Length" -> "content-length"
      [] name = "Content-Type" -> "content-type"
      [] name = "X-Foo" -> "x-foo"
      [] name = "X-Bar" -> "x-bar"
      [] name = "Accept-Encoding" -> "accept-encoding"
      [] name = "If-None-Match" -> "if-none-match"
      [] name = "X-Forwarded-For" -> "x-forwarded-for"
      [] name = "Origin" -> "origin"
      [] name = "Close" -> "close"
      [] name = "Domain" -> "domain"
      [] name = "DOMAIN" -> "domain"
      [] name = "Path" -> "path"
      [] name = "PATH" -> "path"
      [] name = "Secure" -> "secure"
      [] name = "HttpOnly" -> "httponly"
      [] OTHER -> name

\* new Headers(init): names are lower-cased, whatever case they arrived in
HeadersOf(raw) ==
    [n \in {toLowerCaseName(e.name) : e \in raw} |->
        (CHOOSE e \in raw : toLowerCaseName(e.name) = n).value]

hopByHopHeaderNames_NoUpgrade ==
    {"connection", "keep-alive", "proxy-authenticate", "proxy-authorization",
     "te", "trailers", "transfer-encoding", "content-length"}

hopByHopHeaderNames ==
    {"connection", "keep-alive", "proxy-authenticate", "proxy-authorization",
     "te", "trailers", "transfer-encoding", "upgrade", "content-length"}

deleteConnectionListedHeaders(h) ==
    IF ~Has(h, "connection") \/ h["connection"] = <<>> THEN h
    ELSE DelAll(h, {toLowerCaseName(h["connection"][i]) : i \in
                        {j \in 1..Len(h["connection"]) : h["connection"][j] # ""}})

---------------------------------------------------------------------------
(* Host header and route lookup *)

NullHeader == <<"null">>          \* req.headers.get("host") === null

EmptyHost == [host |-> <<>>, hostname |-> <<>>, port |-> <<>>]

parseHost(host) ==
    IF host = NullHeader \/ host = <<>> THEN EmptyHost
    ELSE LET trimmed == Trim(host)
             parts == Split(trimmed, ":")
         IN IF trimmed = <<>> THEN EmptyHost
            ELSE [host |-> trimmed,
                  hostname |-> parts[1],
                  port |-> IF Includes(trimmed, ":") THEN parts[2] ELSE <<>>]

toLowerCaseChar(c) == IF c = "A" THEN "a" ELSE c

RECURSIVE toLowerCase(_)
toLowerCase(s) ==
    IF s = <<>> THEN <<>> ELSE <<toLowerCaseChar(Head(s))>> \o toLowerCase(Tail(s))

toUpperCaseMethod(method) == IF method = "connect" THEN "CONNECT" ELSE method

\* Values a property read on the routes object can give
Undefined == [kind |-> "undefined"]
InheritedFunction == [kind |-> "function"]

UrlTarget(origin, host, pathname) ==
    [kind |-> "url", origin |-> origin, host |-> host, pathname |-> pathname]

\* Names every plain object inherits from Object.prototype
ConstructorName == <<"c", "o", "n", "s", "t", "r", "u", "c", "t", "o", "r">>
ObjectPrototypeKeys == {ConstructorName}

\* this.routes[resolvedHostname] on a Record: own keys first, then the
\* prototype chain
RecordGet(obj, key) ==
    IF key \in DOMAIN obj THEN obj[key]
    ELSE IF key \in ObjectPrototypeKeys THEN InheritedFunction
    ELSE Undefined

Truthy(v) == v.kind # "undefined"

Response(status, body) == [status |-> status, body |-> body, headers |-> EmptyHeaders]

\* fetch, lines 131-144, with the CONNECT test moved after the route lookup
fetchDecide_ConnectLast(r, rts) ==
    LET hostname == parseHost(r.host).hostname
        resolvedHostname == IF hostname # <<>> THEN hostname ELSE r.urlHostname
        target == RecordGet(rts, resolvedHostname)
    IN IF resolvedHostname = <<>>
       THEN [kind |-> "response", response |-> Response(400, "Bad Request")]
       ELSE IF ~Truthy(target)
       THEN [kind |-> "response", response |-> Response(404, "Not Found")]
       ELSE IF toUpperCaseMethod(r.method) = "CONNECT"
       THEN [kind |-> "response", response |-> Response(501, "CONNECT not supported")]
       ELSE [kind |-> "proxy", hostname |-> resolvedHostname, target |-> target]

\* fetch, lines 131-144: what the handler decides before it proxies
fetchDecide(r, rts) ==
    IF toUpperCaseMethod(r.method) = "CONNECT"
    THEN [kind |-> "response", response |-> Response(501, "CONNECT not supported")]
    ELSE LET hostname == parseHost(r.host).hostname
             resolvedHostname == IF hostname # <<>> THEN hostname ELSE r.urlHostname
             target == RecordGet(rts, resolvedHostname)
         IN IF resolvedHostname = <<>>
            THEN [kind |-> "response", response |-> Response(400, "Bad Request")]
            ELSE IF ~Truthy(target)
            THEN [kind |-> "response", response |-> Response(404, "Not Found")]
            ELSE [kind |-> "proxy", hostname |-> resolvedHostname, target |-> target]

---------------------------------------------------------------------------
(* proxy: the upstream request *)

\* req.headers: the Host header and the other headers, as a Headers object
requestHeaders(r) ==
    LET others == HeadersOf(r.rawHeaders)
    IN IF r.host = NullHeader THEN others ELSE Put(others, "host", r.host)

\* req.headers.get("host") || incomingUrl.host
clientHostOf(r) ==
    IF r.host # NullHeader /\ r.host # <<>> THEN r.host ELSE r.urlHostname

\* new URL(origin).hostname of an Origin header; "null" does not parse
OriginParses(value) == value # <<"null">>

\* lines 188-193: copy every header that is not in the static set
copyRequestHeaders(reqH) ==
    [n \in {k \in DOMAIN reqH : toLowerCaseName(k) \notin hopByHopHeaderNames} |-> reqH[n]]

\* lines 187-224
buildUpstreamHeaders(r, target, matchedHost) ==
    LET h0 == copyRequestHeaders(requestHeaders(r))
        h1 == Put(h0, "host", <<target.host>>)
        h2 == DelAll(h1, {"accept-encoding", "if-none-match", "if-modified-since"})
        clientHost == clientHostOf(r)
        h3 == IF clientHost # <<>>
              THEN Put(Put(Put(h2, "x-forwarded-host", clientHost),
                           "x-forwarded-proto", <<"http">>),
                       "x-forwarded-server", matchedHost)
              ELSE h2
        h4 == IF r.clientIp # ""
              THEN Put(h3, "x-forwarded-for",
                       IF Has(h3, "x-forwarded-for") /\ h3["x-forwarded-for"] # <<>>
                       THEN Append(h3["x-forwarded-for"], r.clientIp)
                       ELSE <<r.clientIp>>)
              ELSE h3
    IN IF /\ Has(h4, "origin")
          /\ h4["origin"] # <<>>
          /\ OriginParses(h4["origin"])
          /\ toLowerCase(h4["origin"]) = matchedHost
       THEN Put(h4, "origin", <<target.origin>>)
       ELSE h4

\* lines 178-232: what proxy() does before it awaits; new URL(target) throws
\* on a target that is no URL
proxyPrepare(r, target, matchedHost) ==
    IF target.kind # "url" THEN [kind |-> "throw"]
    ELSE [kind |-> "call",
          method |-> r.method,
          url |-> buildUpstreamUrl(
                      [pathname |-> r.pathname, search |-> r.search, hash |-> r.hash],
                      target),
          headers |-> buildUpstreamHeaders(r, target, matchedHost)]

---------------------------------------------------------------------------
(* proxy: the downstream response *)

\* lines 267-269, without the loop of line 270 over the hop-by-hop names
buildDownstreamHeaders_KeepsHopByHop(upstreamRaw) ==
    deleteConnectionListedHeaders(HeadersOf(upstreamRaw))

\* lines 267-270
buildDownstreamHeaders(upstreamRaw) ==
    DelAll(deleteConnectionListedHeaders(HeadersOf(upstreamRaw)), hopByHopHeaderNames)

\* lines 315-321
debugHeaders(h, opts, requestId, target) ==
    IF opts.debug
    THEN Put(Put(Put(h, "x-bun-proxy-id", <<requestId>>),
                 "x-bun-proxy-upstream", <<target.origin>>),
             "x-bun-proxy-time", <<"ms">>)
    ELSE h

\* A Location value, in the parts the URL parser finds in it: origin is ""
\* when the text has no scheme and authority, pathname is <<>> when it has no
\* path.  The empty text is the reference with four empty parts.
NoLocation == [kind |-> "none"]
InvalidLocation == [kind |-> "invalid"]
LocationRef(origin, pathname, search, hash) ==
    [kind |-> "ref", origin |-> origin, pathname |-> pathname, search |-> search, hash |-> hash]

EmptyLocation == LocationRef("", <<>>, "", "")

\* The directory of a URL path: everything up to and including its last "/"
dirname(pathname) ==
    SubSeq(pathname, 1, CHOOSE i \in 1..Len(pathname) :
                            /\ pathname[i] = "/"
                            /\ \A j \in (i + 1)..Len(pathname) : pathname[j] # "/")

\* new URL(location, upstreamUrl), line 277
resolveUrl(loc, base) ==
    IF loc.origin # ""
    THEN [origin |-> loc.origin,
          pathname |-> IF loc.pathname = <<>> THEN <<"/">> ELSE loc.pathname,
          search |-> loc.search, hash |-> loc.hash]
    ELSE IF loc.pathname # <<>> /\ loc.pathname[1] = "/"
    THEN [origin |-> base.origin, pathname |-> loc.pathname,
          search |-> loc.search, hash |-> loc.hash]
    ELSE IF loc.pathname # <<>>
    THEN [origin |-> base.origin, pathname |-> dirname(base.pathname) \o loc.pathname,
          search |-> loc.search, hash |-> loc.hash]
    ELSE [origin |-> base.origin, pathname |-> base.pathname,
          search |-> IF loc.search # "" THEN loc.search ELSE base.search,
          hash |-> loc.hash]

\* The port an http URL leaves out of its serialisation
DefaultPort == <<"8", "0">>

\* new URL(clientOrigin), line 280: the text after "http://" parses as a host
\* when it is a name, or a name, ":" and a port
UrlHostParses(host) ==
    LET parts == Split(host, ":")
    IN /\ Len(parts) <= 2
       /\ parts[1] # <<>>
       /\ Len(parts) = 2 => \A i \in 1..Len(parts[2]) : parts[2][i] \in {"8", "0"}

\* URL.host after parsing: the name in lower case, the port unless it is
\* empty or the default one
urlHost(host) ==
    LET parts == Split(host, ":")
    IN IF Len(parts) = 1 \/ parts[2] = <<>> \/ parts[2] = DefaultPort
       THEN toLowerCase(parts[1])
       ELSE toLowerCase(parts[1]) \o <<":">> \o parts[2]

\* clientLoc.toString(), lines 280-284
ClientUrl(host, pathname, search, hash) ==
    [kind |-> "url", protocol |-> "http:", host |-> host,
     pathname |-> pathname, search |-> search, hash |-> hash]

\* lines 273-287 with the origin test left out
rewriteLocation_AnyOrigin(location, upstreamUrl, basePath, clientHost) ==
    IF location.kind # "ref" \/ location = EmptyLocation THEN location
    ELSE LET resolvedLoc == resolveUrl(location, upstreamUrl)
         IN IF UrlHostParses(clientHost)
            THEN ClientUrl(urlHost(clientHost),
                           stripBasePath(resolvedLoc.pathname, basePath),
                           resolvedLoc.search, resolvedLoc.hash)
            ELSE location

\* lines 273-287: the Location header of the downstream response
rewriteLocation(location, upstreamUrl, basePath, clientHost) ==
    IF location.kind # "ref" \/ location = EmptyLocation THEN location
    ELSE LET resolvedLoc == resolveUrl(location, upstreamUrl)
         IN IF resolvedLoc.origin = upstreamUrl.origin /\ UrlHostParses(clientHost)
            THEN ClientUrl(urlHost(clientHost),
                           stripBasePath(resolvedLoc.pathname, basePath),
                           resolvedLoc.search, resolvedLoc.hash)
            ELSE location

\* A Set-Cookie text is a sequence of pieces: the separators ";", "=", " "
\* and "," are pieces of their own, a name or a value without separators is
\* one piece, a path is one piece per character.

\* Array.prototype.join with a separator of several pieces
RECURSIVE JoinWith(_, _)
JoinWith(parts, sep) ==
    IF parts = <<>> THEN <<>>
    ELSE IF Len(parts) = 1 THEN parts[1]
    ELSE parts[1] \o sep \o JoinWith(Tail(parts), sep)

RECURSIVE MapSeq(_, _)
MapSeq(Op(_), xs) == IF xs = <<>> THEN <<>> ELSE <<Op(Head(xs))>> \o MapSeq(Op, Tail(xs))

toLowerCasePieces(s) == MapSeq(toLowerCaseName, s)

\* lines 81-99: one attribute of the cookie
rewriteSetCookieAttr(attr, clientHostname, basePath) ==
    LET eqIndex == IndexOf(attr, "=")
        key == toLowerCasePieces(Trim(IF eqIndex = -1 THEN attr ELSE SubSeq(attr, 1, eqIndex)))
        value == IF eqIndex = -1 THEN <<>> ELSE Trim(Slice(attr, eqIndex + 1))
    IN IF key = <<"domain">> /\ clientHostname # <<>>
       THEN <<"Domain", "=">> \o clientHostname
       ELSE IF key = <<"path">>
       THEN <<"Path", "=">> \o stripBasePath(IF value = <<>> THEN <<"/">> ELSE value, basePath)
       ELSE attr

\* lines 69-103
rewriteSetCookieForClient(setCookie, clientHostname, basePath) ==
    LET parts == Split(setCookie, ";")
        head == Head(parts)
        attrs == FilterBoolean(MapSeq(Trim, Tail(parts)))
        RewriteAttr(attr) == rewriteSetCookieAttr(attr, clientHostname, basePath)
    IN IF head = <<>> THEN setCookie
       ELSE JoinWith(<<Trim(head)>> \o MapSeq(RewriteAttr, attrs), <<";", " ">>)

\* line 258, new Headers(axiosResponse.headers) followed by line 290,
\* getAll("set-cookie"): the client library holds the Set-Cookie lines as an
\* array under one key, and the Headers constructor turns that one value
\* into a string, which joins the lines with ","
headersOfAxios(setCookieLines) ==
    IF setCookieLines = <<>> THEN <<>> ELSE <<Join(setCookieLines, ",")>>

\* lines 289-299
rewriteSetCookies(setCookieLines, matchedHost, basePath) ==
    LET setCookies == headersOfAxios(setCookieLines)
        Rewrite(cookie) == rewriteSetCookieForClient(cookie, matchedHost, basePath)
    IN MapSeq(Rewrite, setCookies)

---------------------------------------------------------------------------
(* ContentRewriter.  A body is null, or bytes in the chunks its stream      *)
(* yields, or an HTML document as the elements HTMLRewriter finds in it.    *)
(* A byte that is an ASCII character and the character itself are the same *)
(* piece; "C3" "A9" are the two bytes of the character "U+00E9"; "E9" is a  *)
(* byte that is not UTF-8 (the same character in ISO-8859-1).               *)

NullBody == [kind |-> "null"]
BytesBody(chunks) == [kind |-> "bytes", chunks |-> chunks]
HtmlBody(elements) == [kind |-> "html", elements |-> elements]

Element(tag, attrs) == [tag |-> tag, attrs |-> attrs]

\* String.prototype.replace(string, string): the first occurrence only
RECURSIVE replaceFirst(_, _, _)
replaceFirst(text, from, to) ==
    IF text = <<>> THEN <<>>
    ELSE IF StartsWith(text, from) THEN to \o Slice(text, Len(from))
    ELSE <<Head(text)>> \o replaceFirst(Tail(text), from, to)

\* String.prototype.replaceAll(string, string)
RECURSIVE replaceAll(_, _, _)
replaceAll(text, from, to) ==
    IF text = <<>> THEN <<>>
    ELSE IF StartsWith(text, from) THEN to \o replaceAll(Slice(text, Len(from)), from, to)
    ELSE <<Head(text)>> \o replaceAll(Tail(text), from, to)

\* pathname.ts lines 118-123, replacing every occurrence
rewriteUrl_EveryOccurrence(url, upstreamOrigin, proxyOrigin) ==
    replaceAll(url, upstreamOrigin, proxyOrigin)

\* pathname.ts lines 118-123
rewriteUrl(url, upstreamOrigin, proxyOrigin) ==
    IF StartsWith(url, upstreamOrigin) THEN replaceFirst(url, upstreamOrigin, proxyOrigin)
    ELSE url

\* pathname.ts lines 114-116
rewriteTextContent(text, upstreamOrigin, proxyOrigin) ==
    replaceAll(text, upstreamOrigin, proxyOrigin)

LeadBytes == {"C3"}
ContinuationBytes == {"A9"}
InvalidBytes == {"E9"}
ReplacementCharacter == "U+FFFD"

\* new TextDecoder().decode(chunk, { stream: true }) on a decoder that has
\* seen nothing: a byte that is not UTF-8 gives U+FFFD, and an incomplete
\* character at the end of the chunk is kept inside the decoder
RECURSIVE decode(_)
decode(chunk) ==
    IF chunk = <<>> THEN <<>>
    ELSE IF Head(chunk) \in LeadBytes
    THEN IF Len(chunk) = 1 THEN <<>>
         ELSE IF chunk[2] \in ContinuationBytes
         THEN <<"U+00E9">> \o decode(SubSeq(chunk, 3, Len(chunk)))
         ELSE <<ReplacementCharacter>> \o decode(Tail(chunk))
    ELSE IF Head(chunk) \in ContinuationBytes \cup InvalidBytes
    THEN <<ReplacementCharacter>> \o decode(Tail(chunk))
    ELSE <<Head(chunk)>> \o decode(Tail(chunk))

\* new TextEncoder().encode(text)
RECURSIVE encode(_)
encode(text) ==
    IF text = <<>> THEN <<>>
    ELSE (IF Head(text) = "U+00E9" THEN <<"C3", "A9">>
          ELSE IF Head(text) = ReplacementCharacter THEN <<"EF", "BF", "BD">>
          ELSE <<Head(text)>>) \o encode(Tail(text))

\* pathname.ts lines 92-104: one chunk through the TransformStream; the
\* chunks of a Response body are byte arrays
transformChunk(chunk, upstreamOrigin, proxyOrigin) ==
    encode(replaceAll(decode(chunk), upstreamOrigin, proxyOrigin))

\* pathname.ts lines 47-58
tags ==
    [t \in {"a", "img", "link", "script", "form", "iframe", "source", "object", "area", "base"} |->
        CASE t \in {"a", "link", "area", "base"} -> "href"
          [] t \in {"img", "script", "iframe", "source"} -> "src"
          [] t = "form" -> "action"
          [] t = "object" -> "data"]

\* pathname.ts lines 60-79: the handlers that run on one element
rewriteElement(el, upstreamOrigin, proxyOrigin) ==
    LET e1 == IF /\ el.tag \in DOMAIN tags
                 /\ tags[el.tag] \in DOMAIN el.attrs
                 /\ el.attrs[tags[el.tag]] # <<>>
              THEN [el EXCEPT !.attrs[tags[el.tag]] = rewriteUrl(@, upstreamOrigin, proxyOrigin)]
              ELSE el
    IN IF "style" \in DOMAIN e1.attrs /\ Includes(e1.attrs["style"], "url(")
       THEN [e1 EXCEPT !.attrs["style"] = rewriteTextContent(@, upstreamOrigin, proxyOrigin)]
       ELSE e1

\* pathname.ts lines 45-82: bytes without markup have no element to rewrite
rewriteHtml(response, upstreamOrigin, proxyOrigin) ==
    LET RewriteElement(el) == rewriteElement(el, upstreamOrigin, proxyOrigin)
    IN IF response.body.kind = "html"
       THEN [response EXCEPT !.body = HtmlBody(MapSeq(RewriteElement, @.elements))]
       ELSE response

\* the text of an element's attributes, replaced as part of the whole text
replaceAllInElement(el, upstreamOrigin, proxyOrigin) ==
    [el EXCEPT !.attrs = [n \in DOMAIN @ |-> replaceAll(@[n], upstreamOrigin, proxyOrigin)]]

\* pathname.ts lines 84-112
rewriteText(response, upstreamOrigin, proxyOrigin) ==
    LET TransformChunk(chunk) == transformChunk(chunk, upstreamOrigin, proxyOrigin)
        ReplaceInElement(el) == replaceAllInElement(el, upstreamOrigin, proxyOrigin)
    IN [response EXCEPT
           !.headers = DelAll(@, {"content-length"}),
           !.body = IF @.kind = "bytes" THEN BytesBody(MapSeq(TransformChunk, @.chunks))
                    ELSE HtmlBody(MapSeq(ReplaceInElement, @.elements))]

\* response.headers.get("content-type") || ""
contentTypeOf(headers) ==
    IF Has(headers, "content-type") /\ headers["content-type"] # <<>>
    THEN headers["content-type"][1]
    ELSE ""

\* String.prototype.includes on the Content-Type values of the model
contentTypeIncludes(contentType, needle) ==
    CASE needle = "text/html" -> contentType \in {"text/html", "text/html; charset=utf-8"}
      [] needle = "text/css" -> contentType \in {"text/css"}
      [] needle = "javascript" -> contentType \in {"application/javascript", "text/javascript"}
      [] needle = "application/json" -> contentType \in {"application/json"}
      [] needle = "text/plain" -> contentType \in {"text/plain", "text/plain; charset=iso-8859-1"}

\* pathname.ts line 15
skipsRewriting(response) ==
    \/ response.body.kind = "null"
    \/ response.status = 204
    \/ response.status = 304
    \/ (response.status >= 300 /\ response.status < 400)

\* pathname.ts lines 13-43 with the test of line 15 on the body only
transform_NoStatusTest(response, upstreamOrigin, proxyOrigin) ==
    IF response.body.kind = "null" THEN response
    ELSE LET contentType == contentTypeOf(response.headers)
         IN IF contentTypeIncludes(contentType, "text/html")
            THEN rewriteHtml(response, upstreamOrigin, proxyOrigin)
            ELSE IF \/ contentTypeIncludes(contentType, "text/css")
                    \/ contentTypeIncludes(contentType, "javascript")
                    \/ contentTypeIncludes(contentType, "application/json")
                    \/ contentTypeIncludes(contentType, "text/plain")
            THEN rewriteText(response, upstreamOrigin, proxyOrigin)
            ELSE response

\* pathname.ts lines 13-43, when nothing throws
transform(response, upstreamOrigin, proxyOrigin) ==
    IF skipsRewriting(response) THEN response
    ELSE LET contentType == contentTypeOf(response.headers)
         IN IF contentTypeIncludes(contentType, "text/html")
            THEN rewriteHtml(response, upstreamOrigin, proxyOrigin)
            ELSE IF \/ contentTypeIncludes(contentType, "text/css")
                    \/ contentTypeIncludes(contentType, "javascript")
                    \/ contentTypeIncludes(contentType, "application/json")
                    \/ contentTypeIncludes(contentType, "text/plain")
            THEN rewriteText(response, upstreamOrigin, proxyOrigin)
            ELSE response

---------------------------------------------------------------------------
(* proxy: the downstream response, put together *)

\* upstreamUrl.origin, as the text the rewriter looks for
originText(origin) ==
    CASE origin = "http://127.0.0.1:9000" -> <<"http://", "127.0.0.1:9000">>
      [] origin = "http://10.0.0.2" -> <<"http://", "10.0.0.2">>

\* lines 301-313: `${incomingUrl.protocol}//${clientHost}` is the proxy origin
rewriteContent(response, opts, upstreamUrl, clientHost) ==
    IF opts.rewriteContent
    THEN transform(response, originText(upstreamUrl.origin), <<"http://">> \o clientHost)
    ELSE response

\* lines 255-330
buildDownstreamResponse(up, opts, requestId, r, m, upstreamUrl) ==
    LET basePath == basePathOf(m.target.pathname)
        downstreamRes ==
            [status |-> up.status,
             body |-> up.body,
             headers |-> buildDownstreamHeaders(up.rawHeaders),
             setCookies |-> rewriteSetCookies(up.setCookies, m.hostname, basePath),
             location |-> rewriteLocation(up.location, upstreamUrl, basePath, clientHostOf(r))]
    IN [rewriteContent(downstreamRes, opts, upstreamUrl, clientHostOf(r)) EXCEPT
           !.headers = debugHeaders(@, opts, requestId, m.target)]

---------------------------------------------------------------------------
(* Inputs of the pipeline *)

HostChars == {"a", "A", ":", "8"}
HostStrs == StrsUpTo(HostChars, MaxHostLen)
HostHeaders == HostStrs \cup {NullHeader, ConstructorName}

\* Hostname of req.url: the server builds the URL from the Host header (the
\* URL parser lower-cases it) and from its own name when the header has none
DefaultHostnames == {<<"a">>, <<"l">>}
UrlHostnamesFor(host) ==
    IF parseHost(host).hostname # <<>> THEN {toLowerCase(parseHost(host).hostname)}
    ELSE DefaultHostnames

Methods == {"GET", "HEAD", "POST", "CONNECT", "connect"}

Target1 == UrlTarget("http://127.0.0.1:9000", "127.0.0.1:9000", <<"/", "a">>)
Target2 == UrlTarget("http://10.0.0.2", "10.0.0.2", <<"/">>)

RouteTable1 == [h \in {<<"a">>} |-> Target1]

RouteTables ==
    { <<>>,
      RouteTable1,
      [h \in {<<"a">>, <<"a", "a">>} |-> IF h = <<"a">> THEN Target1 ELSE Target2],
      [h \in {<<"A">>, <<"8">>} |-> IF h = <<"A">> THEN Target1 ELSE Target2] }

OptionSets ==
    { [debug |-> FALSE, rewriteContent |-> FALSE],
      [debug |-> TRUE, rewriteContent |-> TRUE] }

Header(name, value) == [name |-> name, value |-> value]

RawRequestHeaders ==
    { Header("Connection", <<"Keep-Alive", "X-Foo">>),
      Header("CONNECTION", <<"close">>),
      Header("Keep-Alive", <<"timeout=5">>),
      Header("Proxy-Authenticate", <<"Basic">>),
      Header("Proxy-Authorization", <<"Basic xyz">>),
      Header("TE", <<"trailers">>),
      Header("Trailers", <<"X-Foo">>),
      Header("Transfer-Encoding", <<"chunked">>),
      Header("UPGRADE", <<"websocket">>),
      Header("X-Foo", <<"1">>),
      Header("Accept-Encoding", <<"gzip">>),
      Header("X-Forwarded-For", <<"10.0.0.1">>),
      Header("Origin", <<"a">>) }

RawResponseHeaders ==
    { Header("Connection", <<"Close", "X-Bar">>),
      Header("connection", <<"">>),
      Header("Keep-Alive", <<"timeout=5">>),
      Header("Proxy-Authenticate", <<"Basic">>),
      Header("Proxy-Authorization", <<"Basic xyz">>),
      Header("TE", <<"trailers">>),
      Header("Trailers", <<"X-Bar">>),
      Header("Transfer-Encoding", <<"chunked">>),
      Header("Upgrade", <<"h2c">>),
      Header("X-Bar", <<"1">>),
      Header("Content-Length", <<"12">>),
      Header("Content-Type", <<"text/plain">>),
      Header("content-type", <<"text/html">>) }

\* Header lists of at most MaxHeaders entries, no name twice
HeaderLists(all) ==
    {hs \in SUBSET all :
        /\ Cardinality(hs) <= MaxHeaders
        /\ \A e1, e2 \in hs : toLowerCaseName(e1.name) = toLowerCaseName(e2.name) => e1 = e2}

Request(method, host, urlHostname, pathname, search, rawHeaders, clientIp) ==
    [method |-> method, host |-> host, urlHostname |-> urlHostname,
     pathname |-> pathname, search |-> search, hash |-> "",
     rawHeaders |-> rawHeaders, clientIp |-> clientIp]

\* Requests that vary the Host header, with and without CONNECT
HostRequests ==
    UNION {{Request(m, h, u, <<"/">>, "", {}, "9.9.9.9") :
                m \in {"GET", "CONNECT"}, u \in UrlHostnamesFor(h)} : h \in HostHeaders}

\* Requests that vary the method
SampleHosts == {NullHeader, <<"a">>, <<"A">>, <<"a", ":", "8">>, <<"8">>}
MethodRequests ==
    UNION {{Request(m, h, u, <<"/">>, "", {}, "9.9.9.9") :
                m \in Methods, u \in UrlHostnamesFor(h)} : h \in SampleHosts}

DispatchRequests == HostRequests \cup MethodRequests

\* Requests that vary the headers, the path and the client address
RequestHeaderLists == HeaderLists(RawRequestHeaders)
HeaderRequests ==
    {Request(m, <<"a", ":", "8">>, <<"a">>, <<"/", "a", "/">>, "?x=1", hs, "9.9.9.9") :
        m \in {"GET", "POST"}, hs \in RequestHeaderLists}
    \cup {Request("GET", <<"a", ":", "8">>, <<"a">>, <<"/">>, "", hs, "") :
        hs \in {{}, {Header("X-Forwarded-For", <<"10.0.0.1">>)}}}

\* Requests that are answered with a redirect: the Host header in lower and
\* upper case, with a port, with the default port
RedirectHosts == {<<"a", ":", "8">>, <<"A">>, <<"a", "a">>, <<"a", ":", "8", "0">>}
RedirectRequests ==
    {Request("GET", h, toLowerCase(parseHost(h).hostname), <<"/", "a">>, "?x=1", {}, "9.9.9.9") :
        h \in RedirectHosts}

Requests == DispatchRequests \cup HeaderRequests \cup RedirectRequests

CanonicalRequest == Request("GET", <<"a", ":", "8">>, <<"a">>, <<"/">>, "?x=1", {}, "9.9.9.9")

RichRequests ==
    { CanonicalRequest,
      Request("GET", <<"a", ":", "8">>, <<"a">>, <<"/", "a", "/">>, "?x=1",
              {Header("Connection", <<"Keep-Alive", "X-Foo">>), Header("UPGRADE", <<"websocket">>)},
              "9.9.9.9") }

Statuses == {200, 302, 404, 500, 502}

\* A body of two ASCII bytes, in one chunk
PlainBody == BytesBody(<< <<"o", "k">> >>)

UpstreamResponse(status, rawHeaders) ==
    [status |-> status, body |-> PlainBody, rawHeaders |-> rawHeaders,
     location |-> NoLocation, setCookies |-> <<>>]

UpstreamRedirect(status, location) ==
    [status |-> status, body |-> PlainBody, rawHeaders |-> {}, location |-> location,
     setCookies |-> <<>>]

UpstreamCookies(setCookies) ==
    [status |-> 200, body |-> PlainBody, rawHeaders |-> {}, location |-> NoLocation,
     setCookies |-> setCookies]

UpstreamContent(status, contentType, body) ==
    [status |-> status, body |-> body,
     rawHeaders |-> {Header("Content-Type", <<contentType>>), Header("Content-Length", <<"12">>)},
     location |-> NoLocation, setCookies |-> <<>>]

\* Bodies that name the upstream: a style sheet, and a page with a link
CssBody == BytesBody(<< <<"url(", "http://", "127.0.0.1:9000", "/", ")">> >>)
PageBody ==
    HtmlBody(<<Element("a", [n \in {"href"} |-> <<"http://", "127.0.0.1:9000", "/">>])>>)

ContentResponses ==
    {UpstreamContent(st, "text/css", CssBody) : st \in {200, 302, 404}}
    \cup {UpstreamContent(st, "text/html", PageBody) : st \in {200, 302, 404}}
    \cup {UpstreamContent(200, "image/png", PlainBody),
          UpstreamContent(200, "text/html; charset=utf-8", PlainBody),
          UpstreamContent(200, "application/json", PlainBody)}

\* Set-Cookie lines of the upstream
Cookie1 == <<"s", "=", "1", ";", " ", "Domain", "=", "u", ";", " ", "Path", "=", "/", "a", "/", "a">>
Cookie2 == <<"s", "=", "1", ";", " ", "DOMAIN", "=", "u", ";", " ", "Secure", ";", " ",
             "path", "=", "/", "a", ";", " ", "HttpOnly">>
Cookie3 == <<"t", "=", "2", ";", "Secure", ";", " ", "Path">>
Cookie4 == <<"t", "=", "2">>
Cookie5 == <<"t", "=", "2", ";", " ", "Path", "=", "/", "a", "a">>
Cookies == {Cookie1, Cookie2, Cookie3, Cookie4, Cookie5}

RECURSIVE SeqsUpTo(_, _)
SeqsUpTo(S, n) ==
    IF n = 0 THEN {<<>>}
    ELSE LET shorter == SeqsUpTo(S, n - 1)
         IN shorter \cup {Append(q, x) : q \in {t \in shorter : Len(t) = n - 1}, x \in S}

CookieLists == SeqsUpTo(Cookies, MaxCookies)

CookieRequests ==
    {Request("GET", h, toLowerCase(parseHost(h).hostname), <<"/", "a">>, "?x=1", {}, "9.9.9.9") :
        h \in {<<"a", ":", "8">>, <<"a", "a">>}}

Origin1 == "http://127.0.0.1:9000"
Locations ==
    { LocationRef(Origin1, <<"/", "a", "/", "a">>, "?y=2", "#f"),
      LocationRef(Origin1, <<"/", "a">>, "", ""),
      LocationRef(Origin1, <<"/", "a", "a">>, "", ""),
      LocationRef(Origin1, <<>>, "", ""),
      LocationRef("http://10.0.0.2", <<"/", "a", "/", "a">>, "", ""),
      LocationRef("http://other.test", <<"/", "a", "/", "a">>, "?y=2", ""),
      LocationRef("https://127.0.0.1:9000", <<"/", "a", "/", "a">>, "", ""),
      LocationRef("", <<"/", "a", "/", "a">>, "", ""),
      LocationRef("", <<"a">>, "", ""),
      LocationRef("", <<>>, "?y=2", ""),
      EmptyLocation,
      InvalidLocation }

ResponseHeaderLists == HeaderLists(RawResponseHeaders)

\* What the upstream may answer: any status for every request, and every
\* header list for two of the requests
UpstreamResponsesFor(r) ==
    {UpstreamResponse(s, {}) : s \in Statuses}
    \cup (IF r \in RichRequests
          THEN {UpstreamResponse(200, hs) : hs \in ResponseHeaderLists} \cup ContentResponses
          ELSE {})
    \cup (IF r \in RedirectRequests
          THEN {UpstreamRedirect(st, loc) : st \in {200, 302}, loc \in Locations}
          ELSE {})
    \cup (IF r \in CookieRequests
          THEN {UpstreamCookies(cs) : cs \in CookieLists}
          ELSE {})

---------------------------------------------------------------------------
(* Spec: the request pipeline *)

NoValue == <<>>

Init ==
    /\ options \in OptionSets
    /\ routes \in RouteTables
    /\ options.debug => routes = RouteTable1
    /\ requestSeq = 0
    /\ pc = "idle"
    /\ req = NoValue
    /\ matched = NoValue
    /\ upstreamReq = NoValue
    /\ upstreamCalls = 0
    /\ upstreamRes = NoValue
    /\ resp = NoValue
    /\ mapHeap = <<>> /\ routesRef = 0 /\ lastOp = <<>>
    /\ pIn = <<>> /\ bIn = <<>> /\ qIn = <<>> /\ out = <<>>
    /\ rIn = <<>> /\ rOut = <<>>

\* axios rejected and the call is issued a second time
axiosRejected_Retry(calls) ==
    IF calls < 2
    THEN [pc |-> "awaitUpstream", calls |-> calls + 1, resp |-> NoValue]
    ELSE [pc |-> "done", calls |-> calls, resp |-> Response(502, "Proxy Error")]

\* lines 262-265: the catch around the axios call
axiosRejected(calls) ==
    [pc |-> "done", calls |-> calls, resp |-> Response(502, "Proxy Error")]

\* fetch is entered: everything up to the first await of the handler
fetch(r) ==
    /\ pc = "idle"
    /\ requestSeq < MaxRequests
    /\ requestSeq' = requestSeq + 1
    /\ req' = r
    /\ LET d == fetchDecide(r, routes)
       IN IF d.kind = "response"
          THEN /\ resp' = d.response
               /\ pc' = "done"
               /\ UNCHANGED <<matched, upstreamReq, upstreamCalls>>
          ELSE LET p == proxyPrepare(r, d.target, d.hostname)
               IN /\ matched' = [hostname |-> d.hostname, target |-> d.target]
                  /\ IF p.kind = "throw"
                     THEN \* caught at lines 161-164
                          /\ resp' = Response(502, "Bad Gateway")
                          /\ pc' = "done"
                          /\ UNCHANGED <<upstreamReq, upstreamCalls>>
                     ELSE /\ upstreamReq' = p
                          /\ resp' = NoValue
                          /\ IF r.method = "GET" \/ r.method = "HEAD"
                             THEN pc' = "awaitUpstream" /\ upstreamCalls' = upstreamCalls + 1
                             ELSE pc' = "awaitBody" /\ UNCHANGED upstreamCalls
    /\ UNCHANGED <<options, routes, upstreamRes, routerVars, pathVars, rewriterVars>>

\* req.arrayBuffer() resolved: axios is called
bodyRead ==
    /\ pc = "awaitBody"
    /\ pc' = "awaitUpstream"
    /\ upstreamCalls' = upstreamCalls + 1
    /\ UNCHANGED <<options, routes, requestSeq, req, matched, upstreamReq, upstreamRes, resp,
                   routerVars, pathVars, rewriterVars>>

\* req.arrayBuffer() rejected (the client went away): caught at lines 262-265
bodyReadFailed ==
    /\ pc = "awaitBody"
    /\ pc' = "done"
    /\ resp' = Response(502, "Proxy Error")
    /\ UNCHANGED <<options, routes, requestSeq, req, matched, upstreamReq, upstreamCalls,
                   upstreamRes, routerVars, pathVars, rewriterVars>>

\* axios resolved: any status is an answer (validateStatus: () => true)
axiosResolve(up) ==
    /\ pc = "awaitUpstream"
    /\ pc' = "done"
    /\ upstreamRes' = [kind |-> "response", response |-> up]
    /\ resp' = buildDownstreamResponse(up, options, requestSeq, req, matched, upstreamReq.url)
    /\ UNCHANGED <<options, routes, requestSeq, req, matched, upstreamReq, upstreamCalls,
                   routerVars, pathVars, rewriterVars>>

\* axios rejected: connection refused, DNS failure, timeout
axiosReject ==
    /\ pc = "awaitUpstream"
    /\ LET n == axiosRejected(upstreamCalls)
       IN /\ pc' = n.pc
          /\ upstreamCalls' = n.calls
          /\ resp' = n.resp
    /\ upstreamRes' = [kind |-> "error"]
    /\ UNCHANGED <<options, routes, requestSeq, req, matched, upstreamReq,
                   routerVars, pathVars, rewriterVars>>

\* the response is sent; the per-request values are dropped
respond ==
    /\ pc = "done"
    /\ pc' = "idle"
    /\ req' = NoValue
    /\ matched' = NoValue
    /\ upstreamReq' = NoValue
    /\ upstreamCalls' = 0
    /\ upstreamRes' = NoValue
    /\ resp' = NoValue
    /\ UNCHANGED <<options, routes, requestSeq, routerVars, pathVars, rewriterVars>>

Next ==
    \/ \E r \in Requests : fetch(r)
    \/ bodyRead
    \/ bodyReadFailed
    \/ \E up \in UpstreamResponsesFor(req) : axiosResolve(up)
    \/ axiosReject
    \/ respond

Spec == Init /\ [][Next]_vars

\* The same pipeline with the progress the runtime gives: a request body is
\* read to its end or the read fails, and a finished response is sent.
\* Nothing makes the upstream answer, and the axios call of lines 245-253
\* sets no timeout, so axiosResolve and axiosReject get no fairness.
SpecFair ==
    /\ Spec
    /\ WF_vars(bodyRead \/ bodyReadFailed)
    /\ WF_vars(respond)

---------------------------------------------------------------------------
(* SpecRouter: the Map-based routing table, with setRoutes and addRoute *)

\* A value of the routes input: a target string, or a Route object
StringValue(target) == [kind |-> "string", target |-> target, private |-> "undefined"]
RouteValue(target, private) == [kind |-> "route", target |-> target, private |-> private]

\* A Route object of the table; private is "undefined" when the field is absent
Route(target, private) == [target |-> target, private |-> private]

\* typeof value === "string" ? { target: value } : value
toRoute(x) ==
    IF x.kind = "string" THEN Route(x.target, "undefined") ELSE Route(x.target, x.private)

\* Map.prototype.get: own entries only
MapGet(map, key) == IF key \in DOMAIN map THEN map[key] ELSE Undefined

\* a set that forgets the entries already in the Map
MapSet_DropsOthers(map, key, value) == [k \in {key} |-> value]

\* Map.prototype.set
MapSet(map, key, value) == [k \in DOMAIN map \cup {key} |-> IF k = key THEN value ELSE map[k]]

\* lines 26-42: a new Map with one Route per entry of the input
normalizeRoutes(routesInput) == [h \in DOMAIN routesInput |-> toRoute(routesInput[h])]

\* lines 77-86 of the Map-based fetch: what the handler decides
fetchMapDecide(r, map) ==
    IF toUpperCaseMethod(r.method) = "CONNECT"
    THEN [kind |-> "response", status |-> 501]
    ELSE LET first == IF r.host = NullHeader THEN <<>> ELSE Split(r.host, ":")[1]
             hostname == IF first # <<>> THEN first ELSE r.urlHostname
             route == MapGet(map, hostname)
         IN IF hostname = <<>> THEN [kind |-> "response", status |-> 400]
            ELSE IF route = Undefined THEN [kind |-> "response", status |-> 404]
            ELSE [kind |-> "proxy", hostname |-> hostname, route |-> route]

RouterHostnames == {<<"a">>, <<"b">>}
RouterValues == {StringValue("http://t1"), RouteValue("http://t2", "true")}

RoutesInputs ==
    { <<>>,
      [h \in {<<"a">>} |-> StringValue("http://t1")],
      [h \in RouterHostnames |->
          IF h = <<"a">> THEN RouteValue("http://t2", "true")
          ELSE StringValue("http://t1")] }

RouterRequests ==
    {[method |-> m, host |-> h, urlHostname |-> <<"l">>] :
        m \in {"GET", "CONNECT"}, h \in {NullHeader, <<"a">>, <<"b", ":", "8">>}}

InitRouter ==
    /\ \E input \in RoutesInputs :
          /\ mapHeap = <<normalizeRoutes(input)>>
          /\ lastOp = [op |-> "constructor", input |-> input]
    /\ routesRef = 1
    /\ options = <<>> /\ routes = <<>> /\ requestSeq = 0 /\ pc = "idle" /\ req = <<>>
    /\ matched = <<>> /\ upstreamReq = <<>> /\ upstreamCalls = 0 /\ upstreamRes = <<>>
    /\ resp = <<>>
    /\ pIn = <<>> /\ bIn = <<>> /\ qIn = <<>> /\ out = <<>>
    /\ rIn = <<>> /\ rOut = <<>>

\* lines 61-63
setRoutes(input) ==
    /\ Len(mapHeap) < MaxMaps
    /\ mapHeap' = Append(mapHeap, normalizeRoutes(input))
    /\ routesRef' = Len(mapHeap) + 1
    /\ lastOp' = [op |-> "setRoutes", input |-> input]
    /\ UNCHANGED <<pipelineVars, pathVars, rewriterVars>>

\* lines 65-70
addRoute(hostname, route) ==
    /\ mapHeap' = [mapHeap EXCEPT ![routesRef] = MapSet(@, hostname, toRoute(route))]
    /\ lastOp' = [op |-> "addRoute", hostname |-> hostname, route |-> route,
                  before |-> mapHeap[routesRef]]
    /\ UNCHANGED <<routesRef, pipelineVars, pathVars, rewriterVars>>

\* lines 76-86: one request reads the table, in one synchronous step
fetchMap(r) ==
    /\ lastOp' = [op |-> "fetch", request |-> r,
                  decision |-> fetchMapDecide(r, mapHeap[routesRef])]
    /\ UNCHANGED <<mapHeap, routesRef, pipelineVars, pathVars, rewriterVars>>

NextRouter ==
    \/ \E input \in RoutesInputs : setRoutes(input)
    \/ \E h \in RouterHostnames, x \in RouterValues : addRoute(h, x)
    \/ \E r \in RouterRequests : fetchMap(r)

SpecRouter == InitRouter /\ [][NextRouter]_vars

---------------------------------------------------------------------------
(* SpecPath: the path functions applied to bounded inputs *)

PathChars == {"/", "a"}
PathStrs == StrsUpTo(PathChars, MaxPathLen)

\* URL.pathname of an http(s) URL always starts with "/"
UrlPathnames == {p \in PathStrs : p # <<>> /\ p[1] = "/"}

Searches == {"", "?x=1"}
Hashes == {"", "#f"}
TargetOrigin == "http://127.0.0.1:9000"

NoOut == [op |-> "none"]

InitPath ==
    /\ pIn \in PathStrs \ {<<>>}
    /\ bIn \in PathStrs
    /\ qIn \in [search : Searches, hash : Hashes]
    /\ out = NoOut
    /\ options = <<>> /\ routes = <<>> /\ requestSeq = 0 /\ pc = "idle" /\ req = <<>> /\ matched = <<>>
    /\ upstreamReq = <<>> /\ upstreamCalls = 0 /\ upstreamRes = <<>> /\ resp = <<>>
    /\ mapHeap = <<>> /\ routesRef = 0 /\ lastOp = <<>>
    /\ rIn = <<>> /\ rOut = <<>>

ApplyStripBasePath ==
    /\ out = NoOut
    /\ out' = [op |-> "stripBasePath", val |-> stripBasePath(pIn, bIn)]
    /\ UNCHANGED <<pIn, bIn, qIn, pipelineVars, routerVars, rewriterVars>>

ApplyFormatPathname ==
    /\ out = NoOut
    /\ out' = [op |-> "formatPathname", val |-> formatPathname(bIn)]
    /\ UNCHANGED <<pIn, bIn, qIn, pipelineVars, routerVars, rewriterVars>>

ApplyBuildUpstreamUrl ==
    /\ out = NoOut
    /\ pIn \in UrlPathnames
    /\ bIn \in UrlPathnames
    /\ out' = [op |-> "buildUpstreamUrl",
               val |-> buildUpstreamUrl(
                          [pathname |-> pIn, search |-> qIn.search, hash |-> qIn.hash],
                          [origin |-> TargetOrigin, pathname |-> bIn])]
    /\ UNCHANGED <<pIn, bIn, qIn, pipelineVars, routerVars, rewriterVars>>

\* the basePath of a route whose target URL has the path bIn
ApplyBasePathOf ==
    /\ out = NoOut
    /\ bIn \in UrlPathnames
    /\ out' = [op |-> "basePath", val |-> basePathOf(bIn)]
    /\ UNCHANGED <<pIn, bIn, qIn, pipelineVars, routerVars, rewriterVars>>

\* part_002 lines 178-185, then lines 277-281 on a Location that is the
\* upstream URL of the request: the path the client is sent to
ApplyRoundTrip ==
    /\ out = NoOut
    /\ pIn \in UrlPathnames
    /\ bIn \in UrlPathnames
    /\ LET upstreamUrl == buildUpstreamUrl(
                              [pathname |-> pIn, search |-> qIn.search, hash |-> qIn.hash],
                              [origin |-> TargetOrigin, pathname |-> bIn])
       IN out' = [op |-> "roundTrip",
                  val |-> stripBasePath(upstreamUrl.pathname, basePathOf(bIn))]
    /\ UNCHANGED <<pIn, bIn, qIn, pipelineVars, routerVars, rewriterVars>>

NextPath ==
    \/ ApplyStripBasePath
    \/ ApplyFormatPathname
    \/ ApplyBuildUpstreamUrl
    \/ ApplyBasePathOf
    \/ ApplyRoundTrip

SpecPath == InitPath /\ [][NextPath]_vars

---------------------------------------------------------------------------
(* SpecRewriter: the ContentRewriter on one response, and the stream of the *)
(* response it returns                                                      *)

UpstreamOriginText == <<"http://", "127.0.0.1:9000">>
ProxyOriginText == <<"http://", "shop.local:8080">>

\* The response proxy() hands to transform: the hop-by-hop headers, with
\* content-length, are already deleted
RewriterResponse(status, contentType, body) ==
    [status |-> status,
     headers |-> IF contentType = "" THEN EmptyHeaders
                 ELSE [n \in {"content-type"} |-> <<contentType>>],
     body |-> body]

BodyBytes == {"http://", "127.0.0.1:9000", "1", "C3", "A9", "E9"}
ByteStrs == StrsUpTo(BodyBytes, MaxBodyLen)

\* Every way of cutting bytes into at most n chunks
RECURSIVE ChunkingsOf(_, _)
ChunkingsOf(bytes, n) ==
    IF bytes = <<>> THEN {<<>>}
    ELSE IF n = 1 THEN {<<bytes>>}
    ELSE {<<bytes>>} \cup
         UNION {{<<SubSeq(bytes, 1, k)>> \o rest :
                    rest \in ChunkingsOf(SubSeq(bytes, k + 1, Len(bytes)), n - 1)} :
                k \in 1..(Len(bytes) - 1)}

TextResponses ==
    {RewriterResponse(200, "text/css", BytesBody(chunks)) :
        chunks \in UNION {ChunkingsOf(bytes, MaxChunks) : bytes \in ByteStrs}}

Attr(name, value) == [n \in {name} |-> value]

\* Elements whose attribute holds a URL of the upstream: each tag of the
\* rewriter with its own attribute, and tags with an attribute that is not
\* theirs
SampleElements ==
    {Element(e[1], Attr(e[2], UpstreamOriginText \o <<"/">>)) :
        e \in { <<"a", "href">>, <<"img", "src">>, <<"link", "href">>, <<"script", "src">>,
                <<"form", "action">>, <<"iframe", "src">>, <<"source", "src">>,
                <<"object", "data">>, <<"area", "href">>, <<"base", "href">>,
                <<"a", "src">>, <<"img", "href">>, <<"form", "href">>, <<"object", "src">>,
                <<"div", "href">>, <<"a", "title">> }}
    \cup {Element("a", Attr("href", v)) :
            v \in { <<>>,
                    <<"/", "p">>,
                    <<"//", "127.0.0.1:9000", "/">>,
                    <<"1">> \o UpstreamOriginText,
                    UpstreamOriginText \o <<"1", "/">>,
                    UpstreamOriginText \o <<".evil.test", "/">>,
                    UpstreamOriginText \o <<"?next=">> \o UpstreamOriginText }}
    \cup {Element("p", Attr("style", v)) :
            v \in { <<"url(">> \o UpstreamOriginText \o <<")">>,
                    <<"url(", "/", ")">> \o UpstreamOriginText \o UpstreamOriginText,
                    <<"color:">> \o UpstreamOriginText,
                    <<"url(">> \o UpstreamOriginText \o <<"1", "/", ")">> }}
    \cup {Element("a", [n \in {"href", "style", "title"} |->
                           IF n = "style" THEN <<"url(">> \o UpstreamOriginText \o <<")">>
                           ELSE UpstreamOriginText \o <<"/">>])}

\* Elements that follow the first one of a document
FollowingElements ==
    { Element("p", Attr("style", <<"color:">> \o UpstreamOriginText)),
      Element("img", Attr("src", UpstreamOriginText \o <<"/">>)) }

\* Documents of up to MaxElements elements: every sample element first
HtmlDocs ==
    {<<>>} \cup {<<e>> \o rest : e \in SampleElements,
                                 rest \in SeqsUpTo(FollowingElements, MaxElements - 1)}

HtmlResponses ==
    {RewriterResponse(st, "text/html", HtmlBody(doc)) : st \in {200, 404}, doc \in HtmlDocs}

ContentTypes ==
    {"text/html", "text/html; charset=utf-8", "text/css", "application/javascript",
     "text/javascript", "application/json", "text/plain", "text/plain; charset=iso-8859-1",
     "image/png", ""}

RewriterStatuses == {200, 204, 301, 304, 399, 404, 500}

DispatchResponses ==
    {RewriterResponse(st, ct, body) :
        st \in RewriterStatuses, ct \in ContentTypes, body \in {NullBody, CssBody, PageBody}}

RewriterResponses == TextResponses \cup HtmlResponses \cup DispatchResponses

NoResult == [op |-> "none"]

InitRewriter ==
    /\ rIn \in [response : RewriterResponses,
                upstreamOrigin : {UpstreamOriginText},
                proxyOrigin : {ProxyOriginText}]
    /\ rOut = NoResult
    /\ options = <<>> /\ routes = <<>> /\ requestSeq = 0 /\ pc = "idle" /\ req = <<>> /\ matched = <<>>
    /\ upstreamReq = <<>> /\ upstreamCalls = 0 /\ upstreamRes = <<>> /\ resp = <<>>
    /\ mapHeap = <<>> /\ routesRef = 0 /\ lastOp = <<>>
    /\ pIn = <<>> /\ bIn = <<>> /\ qIn = <<>> /\ out = <<>>

\* The content types lines 22-31 send to rewriteHtml or rewriteText
dispatches(response) ==
    LET contentType == contentTypeOf(response.headers)
    IN \/ contentTypeIncludes(contentType, "text/html")
       \/ contentTypeIncludes(contentType, "text/css")
       \/ contentTypeIncludes(contentType, "javascript")
       \/ contentTypeIncludes(contentType, "application/json")
       \/ contentTypeIncludes(contentType, "text/plain")

\* The body stream of a returned response: none for a null body, else open
streamOf(response) == IF response.body.kind = "null" THEN "none" ELSE "open"

\* transform returns: lines 13-43 with nothing thrown.  The response it
\* returns holds a stream that rewrites when it is read.
transformReturns ==
    /\ rOut = NoResult
    /\ LET result == transform(rIn.response, rIn.upstreamOrigin, rIn.proxyOrigin)
       IN rOut' = [op |-> "transform", response |-> result, stream |-> streamOf(result),
                   rewriting |-> ~skipsRewriting(rIn.response) /\ dispatches(rIn.response),
                   failure |-> "none"]
    /\ UNCHANGED <<rIn, pipelineVars, routerVars, pathVars>>

\* rewriteHtml or rewriteText throws before it returns: caught at line 34,
\* and line 42 returns the response that came in
transformCatches ==
    /\ rOut = NoResult
    /\ ~skipsRewriting(rIn.response)
    /\ dispatches(rIn.response)
    /\ rOut' = [op |-> "transform", response |-> rIn.response,
                stream |-> streamOf(rIn.response), rewriting |-> FALSE, failure |-> "caught"]
    /\ UNCHANGED <<rIn, pipelineVars, routerVars, pathVars>>

\* the server reads the body to its end
streamCloses ==
    /\ rOut.op = "transform"
    /\ rOut.stream = "open"
    /\ rOut' = [rOut EXCEPT !.stream = "closed"]
    /\ UNCHANGED <<rIn, pipelineVars, routerVars, pathVars>>

\* the rewriting stream throws while the server reads the body (the callback
\* of lines 92-104, or a handler of lines 61-79): the try of lines 21-40 has
\* been left, and the stream is errored
streamThrows ==
    /\ rOut.op = "transform"
    /\ rOut.stream = "open"
    /\ rOut.rewriting
    /\ rOut' = [rOut EXCEPT !.stream = "errored", !.failure = "uncaught"]
    /\ UNCHANGED <<rIn, pipelineVars, routerVars, pathVars>>

NextRewriter == transformReturns \/ transformCatches \/ streamCloses \/ streamThrows

SpecRewriter == InitRewriter /\ [][NextRewriter]_vars

---------------------------------------------------------------------------
(* Claims on the path functions *)

\* The claim's "normalize", computed by scanning characters: a "/" that ends
\* the string or is followed by another "/" is dropped, and the result gets
\* one leading "/".
RECURSIVE Squash(_)
Squash(s) ==
    IF s = <<>> THEN <<>>
    ELSE IF Head(s) = "/" /\ (Len(s) = 1 \/ s[2] = "/") THEN Squash(Tail(s))
    ELSE <<Head(s)>> \o Squash(Tail(s))

Normalize(s) ==
    LET q == Squash(s)
    IN IF q # <<>> /\ q[1] = "/" THEN q ELSE <<"/">> \o q

\* C7: the upstream URL is the route's origin, then normalize(basePath +
\* inbound path), then the inbound query string and fragment unchanged.
C7_UpstreamUrl ==
    out.op = "buildUpstreamUrl" =>
        /\ out.val.origin = TargetOrigin
        /\ out.val.pathname = Normalize(basePathOf(bIn) \o pIn)
        /\ out.val.search = qIn.search
        /\ out.val.hash = qIn.hash

\* C7 witness: route path /a, request /a//a?x=1 (repeated slash inside).
C7_Witness ==
    /\ out.op = "buildUpstreamUrl"
    /\ bIn = <<"/", "a">>
    /\ pIn = <<"/", "a", "/", "/", "a">>
    /\ qIn.search = "?x=1"
    /\ out.val.pathname = <<"/", "a", "/", "a", "/", "a">>

IsCanonicalBasePath(p) ==
    /\ p # <<>>
    /\ p[1] = "/"
    /\ Len(p) >= 2 => p[2] # "/"
    /\ p[Len(p)] # "/"

\* C20: the basePath derived from the path of a route's target URL is empty,
\* or starts with exactly one "/" and has no trailing "/", also when the
\* target's path ends in several slashes or has repeated slashes.
C20_BasePathCanonical ==
    out.op = "basePath" => (out.val = <<>> \/ IsCanonicalBasePath(out.val))

\* C21: for a route of basePath b and a client path p that is already
\* normalized, stripBasePath(normalize(b + p), b) = p: a redirect to the
\* upstream URL of the request sends the client back to the path it asked
\* for.
C21_RoundTrip ==
    (out.op = "roundTrip" /\ Normalize(pIn) = pIn) => out.val = pIn

---------------------------------------------------------------------------
(* Claims on the request pipeline *)

InFlight == pc # "idle"
Answered == pc = "done"
IsConnect == toUpperCaseMethod(req.method) = "CONNECT"

C2_MissingHost400 ==
    (InFlight /\ ~IsConnect /\ req.host = NullHeader) =>
        /\ upstreamCalls = 0
        /\ Answered => resp.status = 400

\* C3: a non-CONNECT request whose Host header names a hostname that is not
\* a key of the routing table is answered 404, with no upstream call.
C3_UnknownHost404 ==
    (/\ InFlight
     /\ ~IsConnect
     /\ req.host # NullHeader
     /\ parseHost(req.host).hostname # <<>>
     /\ parseHost(req.host).hostname \notin DOMAIN routes) =>
        /\ upstreamCalls = 0
        /\ Answered => resp.status = 404

\* C4: the upstream is called at most once per request; a failed call gives
\* 502 with no second attempt; and an upstream answer of any status is
\* returned with that status (and, when content rewriting is off, its body),
\* never replaced by the proxy's 502.
C4_OneCallNoRetry ==
    InFlight =>
        /\ upstreamCalls <= 1
        /\ (Answered /\ upstreamRes # NoValue /\ upstreamRes.kind = "error") =>
                /\ resp.status = 502
                /\ resp.body = "Proxy Error"
                /\ upstreamCalls = 1
        /\ (Answered /\ upstreamRes # NoValue /\ upstreamRes.kind = "response") =>
                /\ resp.status = upstreamRes.response.status
                /\ ~options.rewriteContent => resp.body = upstreamRes.response.body
                /\ upstreamCalls = 1

\* C4 witness: the one upstream call failed and the client got 502.
C4_Witness ==
    /\ Answered
    /\ upstreamRes # NoValue
    /\ upstreamRes.kind = "error"
    /\ upstreamCalls = 1
    /\ resp.status = 502

\* A Host header that is a letter-case variant of h, with or without ":port"
Digits == {"8"}
IsHostVariantOf(host, h) ==
    \E k \in 0..Len(host) :
        LET name == SubSeq(host, 1, k)
            rest == SubSeq(host, k + 1, Len(host))
        IN /\ toLowerCase(name) = toLowerCase(h)
           /\ \/ rest = <<>>
              \/ /\ Len(rest) >= 2
                 /\ rest[1] = ":"
                 /\ \A i \in 2..Len(rest) : rest[i] \in Digits

\* C5: a request whose Host header is any letter-case variant of a
\* registered hostname h, with or without a port, resolves to h's route.
C5_CaseInsensitiveLookup ==
    (InFlight /\ ~IsConnect /\ req.host # NullHeader) =>
        \A h \in DOMAIN routes :
            IsHostVariantOf(req.host, h) =>
                /\ matched # NoValue
                /\ matched.target = routes[h]

\* The eight static hop-by-hop names of the claim
StaticHopByHop ==
    {"connection", "keep-alive", "proxy-authenticate", "proxy-authorization",
     "te", "trailers", "transfer-encoding", "upgrade"}

\* C9: none of the static hop-by-hop headers is in the outbound upstream
\* request or in the final client-facing response.
C9_NoHopByHop ==
    /\ upstreamReq # NoValue =>
          \A n \in DOMAIN upstreamReq.headers : toLowerCaseName(n) \notin StaticHopByHop
    /\ Answered =>
          \A n \in DOMAIN resp.headers : toLowerCaseName(n) \notin StaticHopByHop

\* C9 witness: hop-by-hop headers came in on both sides, in mixed case, and
\* the request was answered with the upstream's answer.
C9_Witness ==
    /\ Answered
    /\ \E e \in req.rawHeaders : e.name = "UPGRADE"
    /\ \E e \in req.rawHeaders : e.name = "Connection"
    /\ upstreamRes # NoValue
    /\ upstreamRes.kind = "response"
    /\ \E e \in upstreamRes.response.rawHeaders : e.name = "Upgrade"
    /\ \E e \in upstreamRes.response.rawHeaders : e.name = "Keep-Alive"
    /\ resp.status = 200

\* Names listed in the inbound Connection header value
ConnectionListed(r) ==
    UNION {{toLowerCaseName(e.value[i]) : i \in 1..Len(e.value)} :
              e \in {x \in r.rawHeaders : toLowerCaseName(x.name) = "connection"}}

\* C10: a header whose name is listed in the inbound Connection header is
\* left out of the outbound upstream request.
C10_ConnectionListedDropped ==
    upstreamReq # NoValue =>
        \A n \in ConnectionListed(req) : n \notin DOMAIN upstreamReq.headers

\* The request was answered with what the upstream answered
Proxied == Answered /\ upstreamRes # NoValue /\ upstreamRes.kind = "response"

\* The upstream's Location header is a URL reference the parser accepts
HasLocation == Proxied /\ upstreamRes.response.location.kind = "ref"

ResolvedLocation == resolveUrl(upstreamRes.response.location, upstreamReq.url)
RouteBasePath == basePathOf(matched.target.pathname)

\* The Location header the client gets is the scheme, this host, and the
\* resolved path without the base path, the resolved query and fragment
LocationIsClientUrl(host) ==
    /\ resp.location.kind = "url"
    /\ resp.location.protocol = "http:"
    /\ resp.location.host = host
    /\ resp.location.pathname = stripBasePath(ResolvedLocation.pathname, RouteBasePath)
    /\ resp.location.search = ResolvedLocation.search
    /\ resp.location.hash = ResolvedLocation.hash

\* The Host header in the form a URL gives it: name in lower case, then the
\* port unless it is the scheme's default
RECURSIVE Lower(_)
Lower(s) == IF s = <<>> THEN <<>>
            ELSE <<IF Head(s) = "A" THEN "a" ELSE Head(s)>> \o Lower(Tail(s))

CanonicalHost(host) ==
    IF Len(host) > 3 /\ SubSeq(host, Len(host) - 2, Len(host)) = <<":", "8", "0">>
    THEN Lower(SubSeq(host, 1, Len(host) - 3))
    ELSE Lower(host)

\* C11 as stated: an upstream Location is resolved against the upstream URL;
\* of another origin than the route's it reaches the client unchanged, of the
\* route's origin the client gets scheme + Host header value + stripBasePath
\* of the resolved path + resolved query + resolved fragment.
C11_LocationRewritten ==
    HasLocation =>
        IF ResolvedLocation.origin # matched.target.origin
        THEN resp.location = upstreamRes.response.location
        ELSE LocationIsClientUrl(req.host)

\* C11 as amended: the same for a Location that is not the empty text, with
\* the Host header value in the form the URL parser gives it (name in lower
\* case, default port left out); the empty Location reaches the client as it
\* is.
C11_LocationRewrittenCanonicalHost ==
    HasLocation =>
        IF upstreamRes.response.location = EmptyLocation
           \/ ResolvedLocation.origin # matched.target.origin
        THEN resp.location = upstreamRes.response.location
        ELSE LocationIsClientUrl(CanonicalHost(req.host))

\* C11 witness: Location http://127.0.0.1:9000/a/a?y=2#f under base path /a
\* reached the client of Host a:8 as http://a:8/a?y=2#f.
C11_Witness ==
    /\ HasLocation
    /\ req.host = <<"a", ":", "8">>
    /\ upstreamRes.response.status = 302
    /\ upstreamRes.response.location =
          LocationRef("http://127.0.0.1:9000", <<"/", "a", "/", "a">>, "?y=2", "#f")
    /\ resp.location = ClientUrl(<<"a", ":", "8">>, <<"/", "a">>, "?y=2", "#f")

\* The claim's rewrite of one Set-Cookie value: the text is cut at ";", the
\* first piece is the name=value pair, and each further piece is an
\* attribute, whose name is its first word
CookieAttrForClient(attr, hostname, basePath) ==
    LET name == toLowerCaseName(attr[1])
        value == IF Len(attr) >= 3 THEN SubSeq(attr, 3, Len(attr)) ELSE <<"/">>
    IN IF name = "domain" THEN <<"Domain", "=">> \o hostname
       ELSE IF name = "path" THEN <<"Path", "=">> \o stripBasePath(value, basePath)
       ELSE attr

RECURSIVE CookieAttrsForClient(_, _, _)
CookieAttrsForClient(pieces, hostname, basePath) ==
    IF pieces = <<>> THEN <<>>
    ELSE <<";", " ">> \o CookieAttrForClient(Trim(Head(pieces)), hostname, basePath)
         \o CookieAttrsForClient(Tail(pieces), hostname, basePath)

CookieForClient(cookie, hostname, basePath) ==
    LET pieces == Split(cookie, ";")
    IN Head(pieces) \o CookieAttrsForClient(Tail(pieces), hostname, basePath)

\* C12: the N Set-Cookie values of the upstream response reach the client as
\* N values in the same order, each with its name=value pair kept, Domain
\* set to the matched hostname, Path set to stripBasePath of its value, and
\* every other attribute as it was and where it was.
C12_SetCookiesRewritten ==
    Proxied =>
        /\ Len(resp.setCookies) = Len(upstreamRes.response.setCookies)
        /\ \A i \in 1..Len(upstreamRes.response.setCookies) :
              resp.setCookies[i] =
                  CookieForClient(upstreamRes.response.setCookies[i], matched.hostname,
                                  RouteBasePath)

\* The response the proxy handed to ContentRewriter.transform was rewritten:
\* the rewriter was on, the skip test of transform let it through, and its
\* Content-Type is one of the rewritten kinds
IsRewrittenKind(contentType) ==
    \/ contentTypeIncludes(contentType, "text/html")
    \/ contentTypeIncludes(contentType, "text/css")
    \/ contentTypeIncludes(contentType, "javascript")
    \/ contentTypeIncludes(contentType, "application/json")
    \/ contentTypeIncludes(contentType, "text/plain")

UpstreamContentType ==
    contentTypeOf(HeadersOf(upstreamRes.response.rawHeaders))

RewrittenByProxy ==
    /\ Proxied
    /\ options.rewriteContent
    /\ upstreamRes.response.body.kind # "null"
    /\ upstreamRes.response.status \notin {204, 304}
    /\ ~(upstreamRes.response.status >= 300 /\ upstreamRes.response.status < 400)
    /\ IsRewrittenKind(UpstreamContentType)

\* C15: a response the Content Rewriter rewrote, on the HTML path as on the
\* text path, has no Content-Length header when the proxy returns it.
C15_NoContentLength ==
    RewrittenByProxy =>
        \A n \in DOMAIN resp.headers : toLowerCaseName(n) # "content-length"

\* C15 witness: the upstream sent a page with a Content-Length, the rewriter
\* took the HTML path and changed the body.
C15_Witness ==
    /\ RewrittenByProxy
    /\ contentTypeIncludes(UpstreamContentType, "text/html")
    /\ \E e \in upstreamRes.response.rawHeaders : e.name = "Content-Length"
    /\ resp.body # upstreamRes.response.body

\* C19: a routed request gets a response even if the upstream never
\* answers: the upstream call ends after a bounded time, and the request is
\* then answered (with 502).
C19_UpstreamCallEnds == (pc = "awaitUpstream") ~> Answered

---------------------------------------------------------------------------
(* Claims on the ContentRewriter *)

\* text has the word from at position i
OccursAt(text, i, from) ==
    /\ i + Len(from) - 1 <= Len(text)
    /\ SubSeq(text, i, i + Len(from) - 1) = from

\* text from position i on, with every occurrence of from given as to
RECURSIVE ReplacedFrom(_, _, _, _)
ReplacedFrom(text, i, from, to) ==
    IF i > Len(text) THEN <<>>
    ELSE IF OccursAt(text, i, from) THEN to \o ReplacedFrom(text, i + Len(from), from, to)
    ELSE <<text[i]>> \o ReplacedFrom(text, i + 1, from, to)

\* The elements and attributes the claim names
UrlAttributes ==
    { <<"a", "href">>, <<"img", "src">>, <<"link", "href">>, <<"script", "src">>,
      <<"form", "action">>, <<"iframe", "src">>, <<"source", "src">>, <<"object", "data">>,
      <<"area", "href">>, <<"base", "href">> }

\* transform returned, and nothing was thrown
Transformed == rOut.op = "transform" /\ rOut.failure = "none"

IsHtmlResponse ==
    /\ rIn.response.status \in {200, 404, 500}
    /\ contentTypeOf(rIn.response.headers) \in {"text/html", "text/html; charset=utf-8"}
    /\ rIn.response.body.kind = "html"

\* What the claim says of one attribute value
AttributeForClient(tag, name, value) ==
    IF <<tag, name>> \in UrlAttributes /\ OccursAt(value, 1, rIn.upstreamOrigin)
    THEN rIn.proxyOrigin \o SubSeq(value, Len(rIn.upstreamOrigin) + 1, Len(value))
    ELSE IF name = "style" /\ \E i \in 1..Len(value) : value[i] = "url("
    THEN ReplacedFrom(value, 1, rIn.upstreamOrigin, rIn.proxyOrigin)
    ELSE value

\* C13: in a text/html response, an attribute of the claim's list whose
\* value starts with the upstream origin has that prefix, and nothing else,
\* replaced by the proxy origin; a style attribute with "url(" has every
\* occurrence replaced; every other attribute value, relative and
\* protocol-relative ones included, is unchanged.
C13_HtmlAttributesRewritten ==
    (Transformed /\ IsHtmlResponse) =>
        LET before == rIn.response.body.elements
            after == rOut.response.body.elements
        IN /\ Len(after) = Len(before)
           /\ \A i \in 1..Len(before) :
                 /\ after[i].tag = before[i].tag
                 /\ DOMAIN after[i].attrs = DOMAIN before[i].attrs
                 /\ \A n \in DOMAIN before[i].attrs :
                       after[i].attrs[n] =
                           AttributeForClient(before[i].tag, n, before[i].attrs[n])

\* C13 witness: <a href="U?next=U"> became <a href="P?next=U">, beside a
\* <p style="color:U"> that was left as it was.
C13_Witness ==
    /\ Transformed
    /\ IsHtmlResponse
    /\ rIn.response.body.elements =
          << Element("a", Attr("href", UpstreamOriginText \o <<"?next=">> \o UpstreamOriginText)),
             Element("p", Attr("style", <<"color:">> \o UpstreamOriginText)) >>
    /\ rOut.response.body.elements =
          << Element("a", Attr("href", ProxyOriginText \o <<"?next=">> \o UpstreamOriginText)),
             Element("p", Attr("style", <<"color:">> \o UpstreamOriginText)) >>

\* The bytes of a body, chunk after chunk
RECURSIVE Bytes(_)
Bytes(chunks) == IF chunks = <<>> THEN <<>> ELSE Head(chunks) \o Bytes(Tail(chunks))

TextTypes ==
    {"text/css", "application/javascript", "text/javascript", "application/json", "text/plain",
     "text/plain; charset=iso-8859-1"}

IsTextResponse ==
    /\ rIn.response.status \in {200, 404, 500}
    /\ contentTypeOf(rIn.response.headers) \in TextTypes
    /\ rIn.response.body.kind = "bytes"

\* The client has read the whole body of the response transform returned
Delivered == Transformed /\ rOut.stream = "closed"

\* C14: the body the client gets for a text/css, javascript,
\* application/json or text/plain response that arrives in one chunk is the
\* upstream body with every occurrence of the upstream origin replaced by
\* the proxy origin, and nothing else changed (a hostname without its scheme
\* stays).
C14_TextBodyRewritten ==
    (Delivered /\ IsTextResponse /\ Len(rIn.response.body.chunks) <= 1) =>
        Bytes(rOut.response.body.chunks) =
            ReplacedFrom(Bytes(rIn.response.body.chunks), 1, rIn.upstreamOrigin, rIn.proxyOrigin)

\* The Content-Type values of the model that name none of the five kinds
OtherTypes == {"image/png", ""}

\* The cases in which the claim says transform changes nothing
IsSkippedResponse ==
    \/ rIn.response.body.kind = "null"
    \/ rIn.response.status \in {204, 304}
    \/ rIn.response.status \in 300..399
    \/ contentTypeOf(rIn.response.headers) \in OtherTypes

\* C16: transform returns the response as it came (same status, same
\* headers, same body) when it has no body, when its status is 204, 304 or
\* any 3xx, whatever its Content-Type, and when its Content-Type is none of
\* text/html, text/css, javascript, application/json and text/plain.
C16_SkippedUnchanged ==
    (Transformed /\ IsSkippedResponse) =>
        /\ rOut.response = rIn.response
        /\ ~rOut.rewriting

\* C16 witness: a 301 with a style sheet that names the upstream came back
\* as it was.
C16_Witness ==
    /\ Transformed
    /\ rIn.response.status = 301
    /\ contentTypeOf(rIn.response.headers) = "text/css"
    /\ rIn.response.body = CssBody
    /\ rOut.response = rIn.response

\* A failure happened while this response was being rewritten
RewriteFailed == rOut.op = "transform" /\ rOut.failure # "none"

\* C17: a failure while a body is rewritten, also one raised while the body
\* stream is being transformed, is caught: the request does not fail, and
\* the client receives the untransformed upstream response.
C17_FailureFallsBack ==
    RewriteFailed =>
        /\ rOut.failure = "caught"
        /\ rOut.stream # "errored"
        /\ rOut.response = rIn.response

\* The text the stream decoded, chunk after chunk
RECURSIVE DecodedText(_)
DecodedText(chunks) ==
    IF chunks = <<>> THEN <<>> ELSE decode(Head(chunks)) \o DecodedText(Tail(chunks))

NamesUpstream(bytes) == \E i \in 1..Len(bytes) : OccursAt(bytes, i, rIn.upstreamOrigin)

\* C18: however a text body is cut into chunks, also inside a multi-byte
\* character, the decoded text is the text of the uncut body, and for a body
\* that does not name the upstream origin the bytes delivered are the bytes
\* delivered for the uncut body.
C18_ChunkingInvisible ==
    (Delivered /\ IsTextResponse) =>
        LET whole == Bytes(rIn.response.body.chunks)
        IN /\ DecodedText(rIn.response.body.chunks) = decode(whole)
           /\ ~NamesUpstream(whole) =>
                 Bytes(rOut.response.body.chunks) =
                     transformChunk(whole, rIn.upstreamOrigin, rIn.proxyOrigin)

\* Pieces that, right after the upstream origin string, continue the port or
\* the host name of the URL: the URL then has another origin
AuthorityPieces == {"1", ".evil.test"}

\* Every place where text has the upstream origin string is the start of a
\* URL of another origin
OnlyOtherOrigins(text) ==
    \A i \in 1..Len(text) :
        OccursAt(text, i, rIn.upstreamOrigin) =>
            /\ i + Len(rIn.upstreamOrigin) <= Len(text)
            /\ text[i + Len(rIn.upstreamOrigin)] \in AuthorityPieces

IsAscii(bytes) ==
    \A i \in 1..Len(bytes) : bytes[i] \notin LeadBytes \cup ContinuationBytes \cup InvalidBytes

\* C22: content rewriting leaves a URL of another origin as it is, also when
\* the upstream origin string is a textual prefix of it
\* (http://127.0.0.1:90001/x, http://127.0.0.1:9000.evil.test/x), in the
\* attributes of an HTML response and in the body of a text response.
C22_OtherOriginUntouched ==
    /\ (Transformed /\ IsHtmlResponse) =>
          \A i \in 1..Len(rIn.response.body.elements) :
              \A n \in DOMAIN rIn.response.body.elements[i].attrs :
                  OnlyOtherOrigins(rIn.response.body.elements[i].attrs[n]) =>
                      rOut.response.body.elements[i].attrs[n] =
                          rIn.response.body.elements[i].attrs[n]
    /\ (Delivered /\ IsTextResponse) =>
          LET whole == Bytes(rIn.response.body.chunks)
          IN (IsAscii(whole) /\ OnlyOtherOrigins(whole)) =>
                 Bytes(rOut.response.body.chunks) = whole

---------------------------------------------------------------------------
(* Claims on the routing table *)

CurrentTable == mapHeap[routesRef]

\* The table an input describes, entry by entry
IsTableOf(table, input) ==
    /\ DOMAIN table = DOMAIN input
    /\ \A h \in DOMAIN input :
          /\ table[h].target = input[h].target
          /\ input[h].kind = "route" => table[h].private = input[h].private

\* What a lookup of the request's hostname in a whole table gives
SeesWhole(decision, r, table) ==
    LET hostname == IF r.host = NullHeader THEN r.urlHostname
                    ELSE IF r.host[1] = ":" THEN r.urlHostname
                    ELSE Split(r.host, ":")[1]
    IN IF hostname \in DOMAIN table
       THEN decision.kind = "proxy" /\ decision.route = table[hostname]
       ELSE decision.kind = "response" /\ decision.status = 404

\* After every operation the table is whole: the table of the input after
\* setRoutes, the previous table plus the one entry after addRoute; and a
\* lookup answers from the whole table that is current when it runs.
WholeTable ==
    /\ lastOp.op \in {"constructor", "setRoutes"} => IsTableOf(CurrentTable, lastOp.input)
    /\ lastOp.op = "addRoute" =>
          /\ DOMAIN CurrentTable = DOMAIN lastOp.before \cup {lastOp.hostname}
          /\ \A h \in DOMAIN lastOp.before \ {lastOp.hostname} :
                CurrentTable[h] = lastOp.before[h]
          /\ CurrentTable[lastOp.hostname].target = lastOp.route.target
          /\ lastOp.route.kind = "route" =>
                CurrentTable[lastOp.hostname].private = lastOp.route.private
    /\ (lastOp.op = "fetch" /\ lastOp.request.method # "CONNECT") =>
          SeesWhole(lastOp.decision, lastOp.request, CurrentTable)

\* No Map object that exists is changed by a step
NoMapMutated == \A o \in DOMAIN mapHeap : mapHeap'[o] = mapHeap[o]

====
